---------------------------- MODULE Spec2Model ----------------------------
(***************************************************************************)
(* A model of the OnlyStudies portal (app_onlystudies): the forum          *)
(* (ForumQuestion / ForumAnswer, slug assignment, view counter,            *)
(* is_answered flag), the blog feed API and the notifications API.         *)
(*                                                                         *)
(* Every database statement is one atomic step; a request handler is the   *)
(* sequence of its statements, run by a worker.  Local computation between *)
(* two statements is folded into the step of the statement before it.      *)
(***************************************************************************)
EXTENDS Integers, Sequences, FiniteSets, TLC

(***************************************************************************)
(* Bounds of the model.                                                    *)
(***************************************************************************)
\* questions a behaviour of SpecRace may insert
MaxRaceQuestions == 2
\* questions a behaviour of SpecSlug may insert
MaxSlugQuestions == 3
\* accounts a behaviour of SpecSignup and of SpecSignupRace may create
MaxSignups == 2
\* answers, blog posts and notifications a behaviour of SpecCascade may insert
MaxCascadeAnswers == 2
MaxCascadePosts == 1
MaxCascadeNotifs == 1
\* categories and blog posts a behaviour of SpecCategory may insert
MaxCategories == 2
MaxCategoryPosts == 1
\* categories, subcategories and blog posts a behaviour of SpecCatalog may insert
MaxCatalogCategories == 2
MaxSubCategories == 3
MaxCatalogPosts == 2
\* blog posts a behaviour of SpecSearch may insert
MaxSearchPosts == 2
\* answers a behaviour of SpecAnswers may insert
MaxListAnswers == 3
\* notifications a behaviour of SpecReads may insert
MaxReadNotifs == 1
\* questions a behaviour of SpecAsk may insert
MaxAskQuestions == 2
\* detail fetches of a question and answers in SpecWeb and SpecSeqWeb
MaxWebFetches == 3
MaxWebAnswers == 2
\* blog posts a behaviour of SpecBlog may insert
MaxPosts == 6
\* notifications a behaviour of SpecNotif may insert
MaxNotifs == 6
\* blog posts a behaviour of SpecRelated may insert
MaxRelatedPosts == 6

\* blog_feed_api and notifications_api return the first five rows
BlogFeedLimit == 5
NotificationsLimit == 5
\* BlogPostDetailView shows the first four related posts
RelatedLimit == 4

\* the worker threads/processes that serve requests
Procs == { "w1", "w2" }
\* the registered users; Anonymous is the unauthenticated caller
Users == { "alice", "bob" }
Anonymous == "anonymous"

(***************************************************************************)
(* Text.  A string is a tuple of one-character strings.                    *)
(***************************************************************************)
LowerChars ==
    << "a","b","c","d","e","f","g","h","i","j","k","l","m",
       "n","o","p","q","r","s","t","u","v","w","x","y","z" >>
UpperChars ==
    << "A","B","C","D","E","F","G","H","I","J","K","L","M",
       "N","O","P","Q","R","S","T","U","V","W","X","Y","Z" >>
DigitChars == << "0","1","2","3","4","5","6","7","8","9" >>

Range(s) == { s[i] : i \in DOMAIN s }

\* str.lower() on one character
ToLower(c) ==
    IF \E i \in DOMAIN UpperChars : UpperChars[i] = c
      THEN LowerChars[CHOOSE i \in DOMAIN UpperChars : UpperChars[i] = c]
      ELSE c

\* \w of the regular expressions in slugify (ASCII titles)
IsWordChar(c) ==
    c \in Range(LowerChars) \cup Range(UpperChars) \cup Range(DigitChars) \cup {"_"}
\* [-\s]
IsSepChar(c) == c \in {" ", "-"}

RECURSIVE MapLower(_)
MapLower(s) ==
    IF s = << >> THEN << >> ELSE << ToLower(Head(s)) >> \o MapLower(Tail(s))

\* re.sub(r"[^\w\s-]", "", value): the other characters are removed
RECURSIVE StripOther(_)
StripOther(s) ==
    IF s = << >> THEN << >>
    ELSE IF IsWordChar(Head(s)) \/ IsSepChar(Head(s))
           THEN << Head(s) >> \o StripOther(Tail(s))
           ELSE StripOther(Tail(s))

\* re.sub(r"[-\s]+", "-", value): every run of separators becomes one hyphen
RECURSIVE CollapseSeps(_)
CollapseSeps(s) ==
    IF s = << >> THEN << >>
    ELSE IF IsSepChar(Head(s))
           THEN IF Tail(s) # << >> /\ IsSepChar(Head(Tail(s)))
                  THEN CollapseSeps(Tail(s))
                  ELSE << "-" >> \o CollapseSeps(Tail(s))
           ELSE << Head(s) >> \o CollapseSeps(Tail(s))

\* str.strip("-_"), one end at a time
RECURSIVE StripLeft(_)
StripLeft(s) ==
    IF s # << >> /\ Head(s) \in {"-", "_"} THEN StripLeft(Tail(s)) ELSE s
RECURSIVE StripRight(_)
StripRight(s) ==
    IF s # << >> /\ s[Len(s)] \in {"-", "_"}
      THEN StripRight(SubSeq(s, 1, Len(s) - 1))
      ELSE s

\* django.utils.text.slugify as ForumQuestion.save calls it
slugify(title) ==
    StripRight(StripLeft(CollapseSeps(StripOther(MapLower(title)))))

\* str(counter) of the f-string: the decimal digits of a natural number
RECURSIVE DecimalStr(_)
DecimalStr(n) ==
    IF n < 10 THEN << DigitChars[n + 1] >>
    ELSE DecimalStr(n \div 10) \o << DigitChars[(n % 10) + 1] >>

\* f"{base_slug}-{counter}"
Suffixed(base_slug, counter) == base_slug \o << "-" >> \o DecimalStr(counter)

\* the <slug:slug> path converter of urls.py: [-a-zA-Z0-9_]+
MatchesSlugConverter(s) ==
    /\ s # << >>
    /\ \A i \in DOMAIN s : IsWordChar(s[i]) \/ s[i] = "-"

(***************************************************************************)
(* The titles the requests of the model submit.  Each passes clean_title   *)
(* (ten characters or more).                                               *)
(***************************************************************************)
TitleExamTips == << "E","x","a","m"," ","T","i","p","s","!" >>
TitleExamTipsSpaced == << "e","x","a","m"," ","-"," ","T","I","P","S" >>
TitleExamTips2 == << "E","x","a","m"," ","t","i","p","s"," ","2" >>
TitlePunctuation == << "?","?","?","?","?","?","?","?","?","?" >>

Titles == { TitleExamTips, TitleExamTipsSpaced, TitleExamTips2, TitlePunctuation }

\* titles clean_title refuses: nine characters, and ten of which two are
\* leading spaces
TitleShort == << "E","x","a","m"," ","T","i","p","s" >>
TitlePadded == << " "," ","E","x","a","m"," ","T","i","p" >>

\* the question bodies the requests submit: nineteen and twenty characters
AskContentShort ==
    << "H","o","w"," ","d","o"," ","I"," ","r","e","v","i","s","e"," ","i","t","?" >>
AskContentOk ==
    << "H","o","w"," ","d","o"," ","I"," ","r","e","v","i","s","e"," ","t","h","i","s" >>

\* the answer bodies the requests submit: nine and ten characters
ContentShort == << "t","r","y"," ","a","g","a","i","n" >>
ContentOk == << "r","e","a","d"," ","n","o","t","e","s" >>
Contents == { ContentShort, ContentOk }

\* the title and the content of a blog post: "News" / "text" and
\* "News" / "exam day"
PostText == [ title |-> << "N","e","w","s" >>, content |-> << "t","e","x","t" >> ]
PostTextExamDay ==
    [ title |-> << "N","e","w","s" >>,
      content |-> << "e","x","a","m"," ","d","a","y" >> ]

\* the q parameters of the search requests: none, blank, "EXAM", " day " and
\* "revise"
QueryEmpty == << >>
QueryBlank == << " "," " >>
QueryExam == << "E","X","A","M" >>
QueryDayPadded == << " ","d","a","y"," " >>
QueryRevise == << "r","e","v","i","s","e" >>

\* a slug no question has (an unknown URL)
UnknownSlug == << "n","o","-","s","u","c","h" >>

\* the empty category reference (NULL)
NoCategory == 0
\* a slug no other row has: "post-<i>"
OwnSlug(i) == Suffixed(<< "p","o","s","t" >>, i)

(***************************************************************************)
(* What the requests of each specification draw from.                      *)
(***************************************************************************)
RaceBounds ==
    [ titles |-> { TitleExamTips, TitlePunctuation }, edits |-> { TitleExamTips2 },
      askers |-> { "alice" }, askMethods |-> { "POST" },
      askContents |-> { AskContentOk }, callers |-> { "alice" },
      questions |-> MaxRaceQuestions, fetches |-> 0, answers |-> 0 ]
SlugBounds ==
    [ titles |-> Titles, edits |-> { TitleExamTips2 },
      askers |-> { "alice" }, askMethods |-> { "POST" },
      askContents |-> { AskContentOk }, callers |-> { "alice" },
      questions |-> MaxSlugQuestions, fetches |-> 0, answers |-> 0 ]
WebBounds ==
    [ titles |-> { TitleExamTips }, edits |-> { },
      askers |-> { "alice" }, askMethods |-> { "POST" },
      askContents |-> { AskContentOk }, callers |-> Users \cup { Anonymous },
      questions |-> 1, fetches |-> MaxWebFetches, answers |-> MaxWebAnswers ]
\* one request after another leaves room for a second question
SeqWebBounds == [ WebBounds EXCEPT !.questions = 2 ]
\* the ask form with every caller, both methods, and titles and contents on
\* both sides of the form's limits
AskBounds ==
    [ titles |-> { TitleExamTips, TitleShort, TitlePadded }, edits |-> { },
      askers |-> Users \cup { Anonymous }, askMethods |-> { "GET", "POST" },
      askContents |-> { AskContentShort, AskContentOk },
      callers |-> { "alice" },
      questions |-> MaxAskQuestions, fetches |-> 0, answers |-> 0 ]
\* steps: the half ticks the clock has advanced by between two inserts.  With
\* a step of one, two successive rows may get the same created_at; with steps
\* of two, no two rows do.
\* slugs: the slugs the caller may supply for the row with the given id
BlogBounds ==
    [ posts |-> MaxPosts, steps |-> { 1, 2 }, authors |-> { "alice" },
      texts |-> { PostText },
      slugs |-> [ i \in 1..(MaxPosts + 1) |-> { OwnSlug(i) } ] ]
\* the signup form: user names of two characters, with a space, taken, and
\* free; a registered e-mail address and free ones; a password the policy
\* refuses and one it accepts
SignupBounds ==
    [ usernames |-> { << "a","l" >>, << "a"," ","b" >>, << "b","o","b" >>,
                      << "c","a","r","o","l" >>, << "d","a","v","e" >> },
      emails |-> { "bob@x.org", "carol@x.org", "dave@x.org" },
      passwords |-> { "password", "Tr1cky-Passw0rd" },
      users |-> MaxSignups ]
\* overlapping signups: two free user names, one free e-mail address
SignupRaceBounds ==
    [ usernames |-> { << "c","a","r","o","l" >>, << "d","a","v","e" >> },
      emails |-> { "carol@x.org" },
      passwords |-> { "Tr1cky-Passw0rd" },
      users |-> MaxSignups ]
RelatedBounds ==
    [ posts |-> MaxRelatedPosts, steps |-> { 2 }, authors |-> { "alice" },
      texts |-> { PostText },
      slugs |-> [ i \in 1..(MaxRelatedPosts + 1) |-> { OwnSlug(i) } ],
      categories |-> 1, catNames |-> { "Maths" }, catSlugs |-> { "maths" } ]
CategoryBounds ==
    [ titles |-> { TitleExamTips }, askers |-> { "alice" },
      askMethods |-> { "POST" }, askContents |-> { AskContentOk },
      callers |-> { "bob" }, questions |-> 1, fetches |-> 1, answers |-> 1,
      posts |-> MaxCategoryPosts, steps |-> { 2 }, authors |-> { "alice" },
      texts |-> { PostText },
      slugs |-> [ i \in 1..(MaxCategoryPosts + 1) |-> { OwnSlug(i) } ],
      categories |-> MaxCategories, catNames |-> { "Maths", "Physics" },
      catSlugs |-> { "maths", "physics" } ]
CatalogBounds ==
    [ categories |-> MaxCatalogCategories, catNames |-> { "Maths", "Physics" },
      catSlugs |-> { "maths", "physics" },
      subcategories |-> MaxSubCategories, subNames |-> { "Algebra" },
      subSlugs |-> { "algebra", "optics" },
      posts |-> MaxCatalogPosts, steps |-> { 2 }, authors |-> { "alice" },
      texts |-> { PostText },
      slugs |-> [ i \in 1..(MaxCatalogPosts + 1) |-> { OwnSlug(1), OwnSlug(i) } ] ]
SearchBounds ==
    [ titles |-> { TitleExamTips, TitlePunctuation }, edits |-> { },
      askers |-> { "alice" }, askMethods |-> { "POST" },
      askContents |-> { AskContentOk }, callers |-> { "alice" },
      questions |-> 1, fetches |-> 0, answers |-> 0,
      posts |-> MaxSearchPosts, steps |-> { 2 }, authors |-> { "alice" },
      slugs |-> [ i \in 1..(MaxSearchPosts + 1) |-> { OwnSlug(i) } ],
      texts |-> { PostText, PostTextExamDay },
      queries |-> { QueryEmpty, QueryBlank, QueryExam, QueryDayPadded,
                    QueryRevise } ]
AnswersBounds ==
    [ titles |-> { TitleExamTips }, edits |-> { },
      askers |-> { "alice" }, askMethods |-> { "POST" },
      askContents |-> { AskContentOk }, callers |-> { "bob" },
      questions |-> 1, fetches |-> 0, answers |-> MaxListAnswers,
      steps |-> { 1, 2 }, authors |-> { "alice" } ]
\* one row of every other kind, and every read endpoint
ReadBounds ==
    [ titles |-> { TitleExamTips }, edits |-> { },
      askers |-> { "alice" }, askMethods |-> { "POST" },
      askContents |-> { AskContentOk },
      callers |-> Users \cup { Anonymous },
      questions |-> 1, fetches |-> 0, answers |-> 0,
      posts |-> 1, steps |-> { 2 }, authors |-> { "alice" },
      slugs |-> [ i \in 1..2 |-> { OwnSlug(i) } ],
      texts |-> { PostTextExamDay }, queries |-> { QueryBlank, QueryExam },
      notifs |-> MaxReadNotifs,
      categories |-> 1, catNames |-> { "Maths" }, catSlugs |-> { "maths" },
      subcategories |-> 1, subNames |-> { "Algebra" },
      subSlugs |-> { "algebra" } ]
NotifBounds ==
    [ notifs |-> MaxNotifs, steps |-> { 2 }, callers |-> Users \cup { Anonymous } ]

(***************************************************************************)
(* State.                                                                  *)
(***************************************************************************)
VARIABLES
    questions,   \* the ForumQuestion table: id -> row
    answers,     \* the ForumAnswer table: id -> row
    nextQ,       \* the next ForumQuestion primary key
    nextA,       \* the next ForumAnswer primary key
    pr,          \* the request each worker is serving, with its locals
    response,    \* the response of the request answered last
    posts,       \* the BlogPost table: id -> row
    notifs,      \* the Notification table: id -> row
    nextP,       \* the next BlogPost primary key
    nextN,       \* the next Notification primary key
    now,         \* the clock auto_now_add reads, in half ticks
    requestUser, \* request.user of the notifications_api call answered last
    requestSlug, \* the slug in the URL of the blog detail request answered last
    categories,  \* the Category table: id -> row
    users,       \* the User table: primary key -> row
    nextU,       \* the number of the next User primary key
    su,          \* the signup request each worker is serving, with its locals
    sessionUser, \* the user the client of the signup answered last is logged in as
    nextC,       \* the next Category primary key
    subcategories, \* the SubCategory table: id -> row
    nextS,       \* the next SubCategory primary key
    cleared,     \* history: the rows that referenced the last deleted category
    fetches      \* history: question id -> detail requests that found it

forumVars == << questions, answers, nextQ, nextA, pr, fetches >>
catalogVars == << categories, nextC, subcategories, nextS, cleared >>
accountVars == << users, nextU, su, sessionUser >>
feedVars ==
    << posts, notifs, nextP, nextN, now, requestUser, requestSlug, catalogVars,
       accountVars >>
vars ==
    << questions, answers, nextQ, nextA, pr, response, posts, notifs, nextP,
       nextN, now, requestUser, requestSlug, categories, nextC, subcategories,
       nextS, cleared, users, nextU,
       su, sessionUser, fetches >>

\* a response: what the request ended as, and the entries of a JSON list
Response(out, rows) == [ out |-> out, rows |-> rows ]

\* auto_now_add=True: the value a DateTimeField stores for the clock reading t,
\* in ticks; two readings half a tick apart may be stored as the same value
Stamp(t) == t \div 2

\* an unsaved ForumQuestion instance (pk None is id 0), with the field defaults
NoObj ==
    [ id |-> 0, title |-> << >>, content |-> << >>, slug |-> << >>,
      author |-> Anonymous, is_answered |-> FALSE, views |-> 0,
      category |-> NoCategory ]

\* a worker that serves no request
IdleProc ==
    [ op |-> "none", pc |-> "done", caller |-> Anonymous, obj |-> NoObj,
      base |-> << >>, cand |-> << >>, counter |-> 0, mode |-> "none" ]

\* the columns of ForumQuestion the model keeps
Columns ==
    { "title", "content", "slug", "author", "is_answered", "views", "category" }

\* the instance a query returns for row id
Loaded(id) ==
    [ id |-> id, title |-> questions[id].title, slug |-> questions[id].slug,
      author |-> questions[id].author,
      is_answered |-> questions[id].is_answered, views |-> questions[id].views,
      category |-> questions[id].category,
      content |-> questions[id].content ]

\* the row an instance is written as
RowOf(obj) ==
    [ title |-> obj.title, slug |-> obj.slug, author |-> obj.author,
      is_answered |-> obj.is_answered, views |-> obj.views,
      category |-> obj.category, content |-> obj.content ]

\* (variant: the views column is written as F('views') + 1)
UpdatedRowCounting(row, obj, fields) ==
    [ c \in Columns |->
        IF c \notin fields THEN row[c]
        ELSE IF c = "views" THEN row[c] + 1
        ELSE RowOf(obj)[c] ]

\* UPDATE ... SET <fields> of the instance: the other columns keep the row's value
UpdatedRow(row, obj, fields) ==
    [ c \in Columns |-> IF c \in fields THEN RowOf(obj)[c] ELSE row[c] ]

\* the foreign keys to User: an INSERT that references no row is refused
UserExists(u) == u \in DOMAIN users
\* the foreign keys to Category (null=True): empty, or a row
CategoryRefOk(c) == c = NoCategory \/ c \in DOMAIN categories

StoreSlugs == { questions[q].slug : q \in DOMAIN questions }

\* ForumQuestion.objects.filter(slug=slug).exists()
SlugExists(slug) == \E q \in DOMAIN questions : questions[q].slug = slug

\* (variant: a table without the unique index)
UniqueSlugUnchecked(slug, id) == TRUE

\* slug = models.SlugField(unique=True, ...): the write is refused when another
\* row holds the slug
UniqueSlugOk(slug, id) ==
    \A q \in DOMAIN questions \ { id } : questions[q].slug # slug

\* the accounts of the registered users
UserRows ==
    [ u \in Users |->
        IF u = "alice"
          THEN [ username |-> << "a","l","i","c","e" >>, email |-> "alice@x.org" ]
          ELSE [ username |-> << "b","o","b" >>, email |-> "bob@x.org" ] ]

\* no session user: the client is not logged in
NoUser == "nobody"

\* a worker that serves no signup
IdleSignup ==
    [ pc |-> "done", username |-> << >>, email |-> "", password |-> "",
      confirm |-> "", valid |-> TRUE ]

Init ==
    /\ questions = << >>
    /\ answers = << >>
    /\ nextQ = 1
    /\ nextA = 1
    /\ pr = [ p \in Procs |-> IdleProc ]
    /\ response = Response("none", << >>)
    /\ posts = << >>
    /\ notifs = << >>
    /\ nextP = 1
    /\ nextN = 1
    /\ now = 0
    /\ requestUser = Anonymous
    /\ requestSlug = << >>
    /\ categories = << >>
    /\ nextC = 1
    /\ subcategories = << >>
    /\ nextS = 1
    /\ cleared = [ posts |-> { }, questions |-> { } ]
    /\ users = UserRows
    /\ nextU = 1
    /\ su = [ p \in Procs |-> IdleSignup ]
    /\ sessionUser = NoUser
    /\ fetches = << >>

\* worker p answers its request with out
Finish(p, out) ==
    /\ pr' = [ pr EXCEPT ![p] = IdleProc ]
    /\ response' = Response(out, << >>)

(***************************************************************************)
(* ForumQuestion.save                                                      *)
(***************************************************************************)
\* (variant: the suffix counter starts at 0)
SaveEntryCounterFromZero(rec, obj, mode) ==
    IF obj.slug = << >>
      THEN [ rec EXCEPT !.pc = "probe", !.obj = obj, !.mode = mode,
                        !.base = slugify(obj.title),
                        !.cand = slugify(obj.title), !.counter = 0 ]
      ELSE [ rec EXCEPT !.pc = "write", !.obj = obj, !.mode = mode ]

\* lines 108-111: the slug test and the locals of the probe loop; mode is what
\* super().save() is asked to write
SaveEntry(rec, obj, mode) ==
    IF obj.slug = << >>
      THEN [ rec EXCEPT !.pc = "probe", !.obj = obj, !.mode = mode,
                        !.base = slugify(obj.title),
                        !.cand = slugify(obj.title), !.counter = 1 ]
      ELSE [ rec EXCEPT !.pc = "write", !.obj = obj, !.mode = mode ]

\* (variant: a loop body that leaves slug and counter as they are)
ProbeStepSameCandidate(rec) ==
    IF SlugExists(rec.cand)
      THEN rec
      ELSE [ rec EXCEPT !.obj.slug = rec.cand, !.pc = "write" ]

\* lines 112-115: one evaluation of the while condition, then the body or the exit
ProbeStep(rec) ==
    IF SlugExists(rec.cand)
      THEN [ rec EXCEPT !.cand = Suffixed(rec.base, rec.counter),
                        !.counter = rec.counter + 1 ]
      ELSE [ rec EXCEPT !.obj.slug = rec.cand, !.pc = "write" ]

Probe(p) ==
    /\ pr[p].pc = "probe"
    /\ pr' = [ pr EXCEPT ![p] = ProbeStep(pr[p]) ]
    /\ UNCHANGED << questions, answers, nextQ, nextA, response >>
    /\ UNCHANGED << feedVars, fetches >>

\* AskQuestionView.get_success_url: reverse() raises when the slug does not
\* match the route's converter
AskOutcome(slug) ==
    IF MatchesSlugConverter(slug) THEN "ask_redirect_detail" ELSE "ask_no_reverse_match"

\* (variant: the IntegrityError is caught and the probe loop entered again)
InsertRetried(p) ==
    /\ pr' = [ pr EXCEPT ![p].pc = "probe" ]
    /\ UNCHANGED response

\* the IntegrityError of the INSERT leaves save() and form_valid, neither of
\* which handles it: the request ends with a server error
InsertRefused(p) == Finish(p, "ask_integrity_error")

\* line 116 for a new instance: INSERT
InsertQuestion(p) ==
    /\ pr[p].pc = "write"
    /\ pr[p].mode = "insert"
    /\ IF /\ UniqueSlugOk(pr[p].obj.slug, 0)
          /\ UserExists(pr[p].obj.author)
          /\ CategoryRefOk(pr[p].obj.category)
         THEN /\ questions' = questions @@ (nextQ :> RowOf(pr[p].obj))
              /\ nextQ' = nextQ + 1
              /\ Finish(p, AskOutcome(pr[p].obj.slug))
         ELSE /\ InsertRefused(p)
              /\ UNCHANGED << questions, nextQ >>
    /\ UNCHANGED << answers, nextA >>
    /\ UNCHANGED << feedVars, fetches >>

\* (variants: save() without update_fields; a flag that is never written)
DetailUpdatesAll == Columns
AnswerUpdatesNothing == { }
AnswerUpdatesAll == Columns

\* the columns the detail view and post_answer pass as update_fields
DetailUpdateFields == { "views" }
AnswerUpdateFields == { "is_answered" }

\* line 116 with update_fields: UPDATE of those columns; Django raises
\* DatabaseError when no row is affected
UpdateFields(p) ==
    /\ pr[p].pc = "write"
    /\ pr[p].mode \in { "views", "is_answered" }
    /\ LET detail == pr[p].mode = "views" IN
       IF pr[p].obj.id \in DOMAIN questions
         THEN /\ questions' =
                   [ questions EXCEPT ![pr[p].obj.id] =
                       UpdatedRow(@, pr[p].obj,
                                  IF detail THEN DetailUpdateFields
                                            ELSE AnswerUpdateFields) ]
              /\ Finish(p, IF detail THEN "detail_rendered" ELSE "answer_posted")
         ELSE /\ Finish(p, IF detail THEN "detail_database_error"
                                     ELSE "answer_database_error")
              /\ UNCHANGED questions
    /\ UNCHANGED << answers, nextQ, nextA >>
    /\ UNCHANGED << feedVars, fetches >>

\* line 116 for a loaded instance saved whole (the admin change form): UPDATE of
\* every column, or INSERT under the same key when the row is gone
UpdateAll(p) ==
    /\ pr[p].pc = "write"
    /\ pr[p].mode = "full"
    /\ IF /\ UniqueSlugOk(pr[p].obj.slug, pr[p].obj.id)
          /\ UserExists(pr[p].obj.author)
          /\ CategoryRefOk(pr[p].obj.category)
         THEN /\ questions' =
                   IF pr[p].obj.id \in DOMAIN questions
                     THEN [ questions EXCEPT ![pr[p].obj.id] = RowOf(pr[p].obj) ]
                     ELSE questions @@ (pr[p].obj.id :> RowOf(pr[p].obj))
              /\ Finish(p, "admin_saved")
         ELSE /\ Finish(p, "admin_integrity_error")
              /\ UNCHANGED questions
    /\ UNCHANGED << answers, nextQ, nextA >>
    /\ UNCHANGED << feedVars, fetches >>

(***************************************************************************)
(* The request handlers.  b is what the specification lets requests draw.  *)
(***************************************************************************)
\* a worker takes a new request when it has answered the last one
Ready(p) == pr[p].pc = "done"

\* the request a worker starts on: its locals are fresh
Request(op, caller) == [ IdleProc EXCEPT !.op = op, !.caller = caller ]

\* forms.CharField(strip=True), the default: the value with the white space
\* at its ends removed
RECURSIVE Strip(_)
Strip(s) ==
    IF s # << >> /\ IsSepChar(Head(s)) /\ Head(s) # "-" THEN Strip(Tail(s))
    ELSE IF s # << >> /\ IsSepChar(s[Len(s)]) /\ s[Len(s)] # "-"
      THEN Strip(SubSeq(s, 1, Len(s) - 1))
    ELSE s

\* (variant: a form without clean_title)
TitleAlwaysValid(title) == TRUE

\* ForumQuestionForm.clean_title and clean_content, on the cleaned values
TitleValid(title) == Len(title) >= 10
AskContentValid(content) == Len(content) >= 20

\* AskQuestionView for the request of caller: LoginRequiredMixin, the method,
\* the form (with the category the caller selects, or none), then form_valid:
\* author = caller and form.save() -> ForumQuestion.save up to its first query
AskRequest(p, b, caller, method, title, content) ==
    /\ Ready(p)
    /\ IF caller = Anonymous THEN Finish(p, "ask_redirect_login")
       ELSE IF method # "POST" THEN Finish(p, "ask_form")
       ELSE IF ~TitleValid(Strip(title)) \/ ~AskContentValid(Strip(content))
         THEN Finish(p, "ask_invalid")
       ELSE /\ nextQ <= b.questions
            /\ \E cat \in { NoCategory } \cup DOMAIN categories :
                 pr' = [ pr EXCEPT ![p] =
                           ProbeStep(SaveEntry(Request("ask", caller),
                                       [ NoObj EXCEPT !.title = Strip(title),
                                                      !.content = Strip(content),
                                                      !.author = caller,
                                                      !.category = cat ],
                                       "insert")) ]
            /\ UNCHANGED response
    /\ UNCHANGED << questions, answers, nextQ, nextA >>
    /\ UNCHANGED << feedVars, fetches >>

AskStart(p, b) ==
    \E u \in b.askers, method \in b.askMethods, t \in b.titles,
       content \in b.askContents :
      AskRequest(p, b, u, method, t, content)

\* the slugs the requests address: those of the rows, and one no row has
AddressedSlugs ==
    { s \in StoreSlugs \cup { UnknownSlug } : MatchesSlugConverter(s) }

\* get_object_or_404(ForumQuestion, slug=slug): the row, or 0 for Http404
QuestionBySlug(slug) ==
    IF SlugExists(slug)
      THEN CHOOSE q \in DOMAIN questions : questions[q].slug = slug
      ELSE 0

\* (variant: the copy is incremented twice)
ViewedTwice(obj) == [ obj EXCEPT !.views = obj.views + 2 ]

\* question.views += 1
Viewed(obj) == [ obj EXCEPT !.views = obj.views + 1 ]

\* the detail requests that found question q so far
Fetched(q) == IF q \in DOMAIN fetches THEN fetches[q] ELSE 0

\* ForumQuestionDetailView.get_object: the read, the increment of the copy, and
\* the entry of save(update_fields=['views'])
DetailGet(p, b) ==
    /\ Ready(p)
    /\ \E s \in AddressedSlugs :
         LET q == QuestionBySlug(s) IN
           IF q = 0
             THEN Finish(p, "detail_not_found") /\ UNCHANGED fetches
             ELSE /\ Fetched(q) < b.fetches
                  /\ pr' = [ pr EXCEPT ![p] =
                               SaveEntry(Request("detail", Anonymous),
                                         Viewed(Loaded(q)), "views") ]
                  /\ fetches' = (q :> Fetched(q) + 1) @@ fetches
                  /\ UNCHANGED response
    /\ UNCHANGED << questions, answers, nextQ, nextA >>
    /\ UNCHANGED feedVars

\* (variant: a form without clean_content)
ContentAlwaysValid(content) == TRUE

\* ForumAnswerForm.clean_content
ContentValid(content) == Len(content) >= 10

\* post_answer up to answer.save(), for the request of caller to the URL with
\* slug s: the login test, the read of the question, the method test and the
\* form
PaRequest(p, b, caller, s, method, content) ==
    /\ Ready(p)
    /\ LET q == QuestionBySlug(s) IN
         IF caller = Anonymous THEN Finish(p, "answer_redirect_login")
         ELSE IF q = 0 THEN Finish(p, "answer_not_found")
         ELSE IF method # "POST" THEN Finish(p, "answer_redirect_detail")
         ELSE IF ~ContentValid(content) THEN Finish(p, "answer_invalid")
         ELSE /\ nextA <= b.answers
              /\ pr' = [ pr EXCEPT ![p] =
                           [ Request("answer", caller) EXCEPT
                               !.obj = Loaded(q), !.pc = "pa_insert" ] ]
              /\ UNCHANGED response
    /\ UNCHANGED << questions, answers, nextQ, nextA >>
    /\ UNCHANGED << feedVars, fetches >>

\* the requests post_answer may get
Methods == { "GET", "POST" }

PaStart(p, b) ==
    \E caller \in b.callers, s \in AddressedSlugs,
       method \in Methods, content \in Contents :
      PaRequest(p, b, caller, s, method, content)

\* answer.save(), a tick after the last insert (the INSERT fails on a foreign
\* key when the question or the author is gone),
\* then lines 330-332: the flag of the copy, and the entry of
\* save(update_fields=['is_answered'])
PaInsert(p) ==
    /\ pr[p].pc = "pa_insert"
    /\ IF pr[p].obj.id \in DOMAIN questions /\ UserExists(pr[p].caller)
         THEN /\ answers' = answers @@
                   (nextA :> [ question |-> pr[p].obj.id, author |-> pr[p].caller,
                               is_accepted |-> FALSE,
                               created_at |-> Stamp(now + 2) ])
              /\ nextA' = nextA + 1
              /\ now' = now + 2
              /\ IF ~pr[p].obj.is_answered
                   THEN /\ pr' = [ pr EXCEPT ![p] =
                                     SaveEntry(pr[p],
                                       [ pr[p].obj EXCEPT !.is_answered = TRUE ],
                                       "is_answered") ]
                        /\ UNCHANGED response
                   ELSE Finish(p, "answer_posted")
         ELSE /\ Finish(p, "answer_integrity_error")
              /\ UNCHANGED << answers, nextA, now >>
    /\ UNCHANGED << questions, nextQ, fetches >>
    /\ UNCHANGED << posts, notifs, nextP, nextN, requestUser, requestSlug,
                    catalogVars, accountVars >>

\* the admin change form of ForumQuestionAdmin with a new title: the instance is
\* read, the title set, and the instance saved whole
AdminEdit(p, b) ==
    /\ Ready(p)
    /\ \E q \in DOMAIN questions, t \in b.edits :
         /\ questions[q].title # t
         /\ pr' = [ pr EXCEPT ![p] =
                      SaveEntry(Request("admin", Anonymous),
                                [ Loaded(q) EXCEPT !.title = t ], "full") ]
    /\ UNCHANGED << questions, answers, nextQ, nextA, response >>
    /\ UNCHANGED << feedVars, fetches >>

\* (variant: a deletion that leaves the answers of the question)
AnswersKept(q) == answers

\* ForumAnswer.question is on_delete=CASCADE
AnswersWithout(q) ==
    [ a \in { a \in DOMAIN answers : answers[a].question # q } |-> answers[a] ]

\* the deletion of a question (admin), one transaction
DeleteQuestion ==
    /\ \E q \in DOMAIN questions :
         /\ questions' = [ i \in DOMAIN questions \ { q } |-> questions[i] ]
         /\ answers' = AnswersWithout(q)
    /\ response' = Response("admin_deleted", << >>)
    /\ UNCHANGED << nextQ, nextA, pr >>
    /\ UNCHANGED << feedVars, fetches >>

(***************************************************************************)
(* The blog feed and the notifications.  b is what the specification lets  *)
(* the requests draw.                                                      *)
(***************************************************************************)
\* Meta.ordering = ['-created_at'] on the rows ids of table: every order the
\* database may return them in, rows of equal created_at in any order
RECURSIVE OrderedBy(_, _)
OrderedBy(table, ids) ==
    IF ids = { } THEN { << >> }
    ELSE UNION { { << i >> \o s : s \in OrderedBy(table, ids \ { i }) } :
                 i \in { i \in ids : \A j \in ids :
                           table[j].created_at <= table[i].created_at } }

\* (variant: a queryset that is not sliced)
Unsliced(s, n) == s

\* queryset[:n]
Slice(s, n) == SubSeq(s, 1, IF Len(s) < n THEN Len(s) ELSE n)

\* (variant: a feed that does not filter on is_published)
AllPosts == DOMAIN posts

\* BlogPost.objects.filter(is_published=True)
PublishedPosts == { i \in DOMAIN posts : posts[i].is_published }

\* the JSON entries of the posts s, in order
BlogEntries(s) ==
    [ k \in 1..Len(s) |->
        [ id |-> s[k], created_at |-> posts[s[k]].created_at ] ]

\* (variant: a table without the unique index on slug)
PostSlugUnchecked(slug) == TRUE

\* slug = models.SlugField(unique=True) of BlogPost
PostSlugOk(slug) == \A i \in DOMAIN posts : posts[i].slug # slug

\* the write of a new BlogPost, d half ticks after the last one, with the
\* slug, the author, the category and the text (title and content) the caller
\* supplies; the INSERT is refused when the slug is in use
InsertPost(pub, d, slug, author, cat, text) ==
    /\ IF PostSlugOk(slug)
         THEN /\ posts' = (nextP :>
                             [ is_published |-> pub,
                               created_at |-> Stamp(now + d),
                               slug |-> slug, author |-> author,
                               category |-> cat, title |-> text.title,
                               content |-> text.content ]) @@ posts
              /\ now' = now + d
              /\ nextP' = nextP + 1
              /\ response' = Response("admin_saved", << >>)
         ELSE /\ response' = Response("admin_integrity_error", << >>)
              /\ UNCHANGED << posts, now, nextP >>
    /\ UNCHANGED << notifs, nextN, requestUser, requestSlug, catalogVars >>
    /\ UNCHANGED << forumVars, accountVars >>

\* a BlogPost is added (admin add form, populate_blog_data)
CreatePost(b) ==
    /\ nextP <= b.posts
    /\ \E pub \in BOOLEAN, d \in b.steps, slug \in b.slugs[nextP],
          author \in b.authors, cat \in { NoCategory } \cup DOMAIN categories,
          text \in b.texts :
         InsertPost(pub, d, slug, author, cat, text)

\* the admin change form of BlogPostAdmin with is_published changed
SetPublished ==
    /\ \E i \in DOMAIN posts :
         posts' = [ posts EXCEPT ![i].is_published = ~ posts[i].is_published ]
    /\ response' = Response("admin_saved", << >>)
    /\ UNCHANGED << notifs, now, nextP, nextN, requestUser, requestSlug,
                    catalogVars >>
    /\ UNCHANGED << forumVars, accountVars >>

\* blog_feed_api: one query, then the JSON list built from its rows
BlogFeedApi ==
    /\ \E s \in OrderedBy(posts, PublishedPosts) :
         response' = Response("blog_feed", BlogEntries(Slice(s, BlogFeedLimit)))
    /\ UNCHANGED feedVars
    /\ UNCHANGED << forumVars, accountVars >>

\* name and slug of Category are unique=True
CategoryUniqueOk(name, slug) ==
    \A c \in DOMAIN categories :
      categories[c].name # name /\ categories[c].slug # slug

\* the write of a new Category with the name and the slug the caller supplies;
\* the INSERT is refused when the name or the slug is in use
InsertCategory(name, slug) ==
    /\ IF CategoryUniqueOk(name, slug)
         THEN /\ categories' = (nextC :> [ name |-> name, slug |-> slug ])
                                 @@ categories
              /\ nextC' = nextC + 1
              /\ response' = Response("admin_saved", << >>)
         ELSE /\ response' = Response("admin_integrity_error", << >>)
              /\ UNCHANGED << categories, nextC >>
    /\ UNCHANGED << posts, notifs, nextP, nextN, now, requestUser, requestSlug,
                    subcategories, nextS, cleared >>
    /\ UNCHANGED << forumVars, accountVars >>

\* a Category is added (Category.objects.create, admin add form)
CreateCategory(b) ==
    /\ nextC <= b.categories
    /\ \E name \in b.catNames, slug \in b.catSlugs : InsertCategory(name, slug)

\* unique_together = ('category', 'slug') of SubCategory
SubCategoryUniqueOk(cat, slug) ==
    \A s \in DOMAIN subcategories :
      ~ (subcategories[s].category = cat /\ subcategories[s].slug = slug)

\* the write of a new SubCategory of the category cat with the name and the
\* slug the caller supplies; the INSERT is refused when the pair (category,
\* slug) is in use or the category is not stored
InsertSubCategory(cat, name, slug) ==
    /\ IF SubCategoryUniqueOk(cat, slug) /\ cat \in DOMAIN categories
         THEN /\ subcategories' = (nextS :> [ category |-> cat, name |-> name,
                                              slug |-> slug ]) @@ subcategories
              /\ nextS' = nextS + 1
              /\ response' = Response("admin_saved", << >>)
         ELSE /\ response' = Response("admin_integrity_error", << >>)
              /\ UNCHANGED << subcategories, nextS >>
    /\ UNCHANGED << posts, notifs, nextP, nextN, now, requestUser, requestSlug,
                    categories, nextC, cleared >>
    /\ UNCHANGED << forumVars, accountVars >>

\* a SubCategory is added (SubCategory.objects.create, admin add form and
\* inline) under a stored category
CreateSubCategory(b) ==
    /\ nextS <= b.subcategories
    /\ \E cat \in DOMAIN categories, name \in b.subNames, slug \in b.subSlugs :
         InsertSubCategory(cat, name, slug)

\* (variant: a related-posts query that does not filter on the category)
CategoryAny(row, value) == TRUE

\* filter(category=value): the rows that reference value; with value None the
\* ORM writes the lookup as category IS NULL, the rows without a category
CategoryIs(row, value) ==
    IF value = NoCategory THEN row.category = NoCategory
    ELSE row.category = value

\* BlogPost.objects.filter(is_published=True, category=post.category)
\*                  .exclude(id=post.id)
RelatedTo(post) ==
    { j \in DOMAIN posts :
        /\ posts[j].is_published
        /\ CategoryIs(posts[j], posts[post].category)
        /\ j # post }

\* the slugs a blog detail request may carry
PostSlugs == { posts[i].slug : i \in DOMAIN posts } \cup { UnknownSlug }

\* BlogPostDetailView: get_object on the published posts, then
\* get_context_data; the rows of the response are context['related_posts']
BlogDetail ==
    /\ \E slug \in PostSlugs :
         /\ requestSlug' = slug
         /\ LET found == { i \in PublishedPosts : posts[i].slug = slug } IN
              IF found = { }
              THEN response' = Response("blog_detail_not_found", << >>)
              ELSE \E post \in found :
                     \E s \in OrderedBy(posts, RelatedTo(post)) :
                       response' =
                         Response("blog_detail",
                                  BlogEntries(Slice(s, RelatedLimit)))
    /\ UNCHANGED << posts, notifs, nextP, nextN, now, requestUser, catalogVars >>
    /\ UNCHANGED << forumVars, accountVars >>

\* LIKE '%q%': q is a prefix of text or occurs in the rest of text
RECURSIVE Like(_, _)
Like(text, q) ==
    IF Len(q) <= Len(text) /\ SubSeq(text, 1, Len(q)) = q THEN TRUE
    ELSE IF text = << >> THEN FALSE
    ELSE Like(Tail(text), q)

\* (variant: title__contains / content__contains)
Contains(text, q) == Like(text, q)

\* field__icontains=q: q occurs in text, letters compared without their case
IContains(text, q) == Like(MapLower(text), MapLower(q))

\* Q(title__icontains=query) | Q(content__icontains=query) on table
Matching(table, query) ==
    { i \in DOMAIN table :
        IContains(table[i].title, query) \/ IContains(table[i].content, query) }

\* SearchResultsView.get_context_data for the parameter q: the rows of the
\* response are context['blog_results'] and context['forum_results'], each the
\* set of the primary keys of its rows
SearchRequest(q) ==
    /\ UNCHANGED << posts, notifs, nextP, nextN, now, requestUser, requestSlug,
                    catalogVars >>
    /\ UNCHANGED << forumVars, accountVars >>
    /\ LET query == Strip(q) IN
         IF query = << >>
         THEN response' = Response("search", << { }, { } >>)
         ELSE response' =
                Response("search",
                         << PublishedPosts \cap Matching(posts, query),
                            Matching(questions, query) >>)

\* a search request
Search(b) == \E q \in b.queries : SearchRequest(q)

\* (variant: a query that does not filter on the user)
UnreadOfAnyone(table, u) == { i \in DOMAIN table : ~ table[i].is_read }

\* Notification.objects.filter(user=request.user, is_read=False) on table
UnreadOf(table, u) ==
    { i \in DOMAIN table : table[i].user = u /\ ~ table[i].is_read }

\* the JSON entries of the notifications s of table, in order
NotificationEntries(table, s) ==
    [ k \in 1..Len(s) |->
        [ id |-> s[k], is_read |-> table[s[k]].is_read,
          created_at |-> table[s[k]].created_at ] ]

\* the lists notifications_api may return to the authenticated user u when the
\* Notification table is table
NotificationsOn(table, u) ==
    { NotificationEntries(table, Slice(s, NotificationsLimit)) :
        s \in OrderedBy(table, UnreadOf(table, u)) }

\* a Notification is added (admin add form, populate_blog_data)
CreateNotification(b) ==
    /\ nextN <= b.notifs
    /\ \E u \in Users \cap DOMAIN users, r \in BOOLEAN, d \in b.steps :
         /\ notifs' = (nextN :> [ user |-> u, is_read |-> r,
                                  created_at |-> Stamp(now + d) ]) @@ notifs
         /\ now' = now + d
    /\ nextN' = nextN + 1
    /\ response' = Response("admin_saved", << >>)
    /\ UNCHANGED << posts, nextP, requestUser, requestSlug, catalogVars >>
    /\ UNCHANGED << forumVars, accountVars >>

\* the admin change form of NotificationAdmin: user and is_read are editable,
\* created_at is read-only
EditNotification ==
    /\ \E i \in DOMAIN notifs, u \in Users, r \in BOOLEAN :
         /\ << u, r >> # << notifs[i].user, notifs[i].is_read >>
         /\ notifs' = [ notifs EXCEPT ![i].user = u, ![i].is_read = r ]
    /\ response' = Response("admin_saved", << >>)
    /\ UNCHANGED << posts, now, nextP, nextN, requestUser, requestSlug,
                    catalogVars >>
    /\ UNCHANGED << forumVars, accountVars >>

\* the HTTP status each return statement of the views sends; an exception that
\* no view catches is answered with 500
Status(out) ==
    CASE out \in { "notifications", "blog_feed", "detail_rendered",
                   "blog_detail", "ask_form", "ask_invalid", "search",
                   "answers", "forum_list", "category", "subcategory",
                   "signup_invalid" } -> 200
      [] out = "notifications_unauthorized" -> 401
      [] out \in { "answer_redirect_login", "answer_redirect_detail",
                   "answer_invalid", "answer_posted", "ask_redirect_detail",
                   "ask_redirect_login", "signup_redirect_home" } -> 302
      [] out \in { "answer_not_found", "detail_not_found",
                   "blog_detail_not_found", "category_not_found",
                   "subcategory_not_found" } -> 404
      [] OTHER -> 500

\* the URL name a redirect goes to
Location(out) ==
    CASE out \in { "answer_redirect_login", "ask_redirect_login" } -> "login"
      [] out \in { "answer_redirect_detail", "answer_invalid", "answer_posted",
                   "ask_redirect_detail" } -> "forum_question"
      [] OTHER -> "none"

\* the level of the message the view leaves for the next page
Message(out) ==
    CASE out \in { "answer_redirect_login", "answer_invalid" } -> "error"
      [] out = "answer_posted" -> "success"
      [] OTHER -> "none"

\* the page is the form with its validation errors
HasFormErrors(out) == out = "ask_invalid"

\* the JSON object of the response has an 'error' key
HasErrorField(out) == out = "notifications_unauthorized"

\* (variant: notifications_api without the test of is_authenticated)
NotificationsApiUnguarded(b) ==
    /\ \E u \in b.callers :
         /\ requestUser' = u
         /\ \E rows \in NotificationsOn(notifs, u) :
              response' = Response("notifications", rows)
    /\ UNCHANGED << posts, notifs, now, nextP, nextN, requestSlug, catalogVars >>
    /\ UNCHANGED << forumVars, accountVars >>

\* (variant: notifications_api marks the notifications it returns as read)
NotificationsApiMarking(b) ==
    /\ \E u \in b.callers :
         /\ requestUser' = u
         /\ IF u = Anonymous
            THEN /\ response' = Response("notifications_unauthorized", << >>)
                 /\ UNCHANGED notifs
            ELSE \E rows \in NotificationsOn(notifs, u) :
                   /\ response' = Response("notifications", rows)
                   /\ notifs' =
                        [ i \in DOMAIN notifs |->
                            IF \E k \in DOMAIN rows : rows[k].id = i
                            THEN [ notifs[i] EXCEPT !.is_read = TRUE ]
                            ELSE notifs[i] ]
    /\ UNCHANGED << posts, now, nextP, nextN, requestSlug, catalogVars >>
    /\ UNCHANGED << forumVars, accountVars >>

\* notifications_api called by request.user = u
NotificationsApi(b) ==
    /\ \E u \in b.callers :
         /\ requestUser' = u
         /\ IF u = Anonymous
            THEN response' = Response("notifications_unauthorized", << >>)
            ELSE \E rows \in NotificationsOn(notifs, u) :
                   response' = Response("notifications", rows)
    /\ UNCHANGED << posts, notifs, now, nextP, nextN, requestSlug, catalogVars >>
    /\ UNCHANGED << forumVars, accountVars >>

(***************************************************************************)
(* The listing pages.                                                      *)
(***************************************************************************)
\* ForumView: the questions of get_queryset (fewer than a page) and the
\* categories of get_context_data, each as the set of its primary keys
ForumList ==
    /\ response' = Response("forum_list", << DOMAIN questions, DOMAIN categories >>)
    /\ UNCHANGED feedVars
    /\ UNCHANGED << forumVars, accountVars >>

\* the slugs a category URL may hold: those of the stored categories and one
\* that no category has
CategorySlugs == { categories[c].slug : c \in DOMAIN categories } \cup { "none" }
SubCategorySlugs ==
    { subcategories[s].slug : s \in DOMAIN subcategories } \cup { "none" }

\* get_object_or_404(Category, slug=category_slug): the rows with the slug
CategoriesBySlug(slug) == { c \in DOMAIN categories : categories[c].slug = slug }

\* category.subcategories.all()
SubCategoriesOf(c) ==
    { s \in DOMAIN subcategories : subcategories[s].category = c }

\* CategoryView.get_context_data: the category and its subcategories
CategoryPage ==
    /\ \E slug \in CategorySlugs :
         IF CategoriesBySlug(slug) = { }
         THEN response' = Response("category_not_found", << >>)
         ELSE \E c \in CategoriesBySlug(slug) :
                response' = Response("category", << { c }, SubCategoriesOf(c) >>)
    /\ UNCHANGED feedVars
    /\ UNCHANGED << forumVars, accountVars >>

\* SubCategoryView.get_context_data: the category, then its subcategory with
\* the slug
SubCategoryPage ==
    /\ \E cslug \in CategorySlugs, sslug \in SubCategorySlugs :
         IF CategoriesBySlug(cslug) = { }
         THEN response' = Response("category_not_found", << >>)
         ELSE \E c \in CategoriesBySlug(cslug) :
                LET found == { s \in SubCategoriesOf(c) :
                                 subcategories[s].slug = sslug }
                IN  IF found = { }
                    THEN response' = Response("subcategory_not_found", << >>)
                    ELSE response' = Response("subcategory", << { c }, found >>)
    /\ UNCHANGED feedVars
    /\ UNCHANGED << forumVars, accountVars >>

(***************************************************************************)
(* The answers of a question.                                              *)
(***************************************************************************)
\* an answer is added on the admin site (ForumAnswerAdmin, ForumAnswerInline),
\* d half ticks after the last insert, accepted or not
CreateAnswer(b) ==
    /\ nextA <= b.answers
    /\ \E q \in DOMAIN questions, author \in b.authors \cap DOMAIN users,
          acc \in BOOLEAN, d \in b.steps :
         /\ answers' = answers @@
              (nextA :> [ question |-> q, author |-> author,
                          is_accepted |-> acc, created_at |-> Stamp(now + d) ])
         /\ now' = now + d
    /\ nextA' = nextA + 1
    /\ response' = Response("admin_saved", << >>)
    /\ UNCHANGED << questions, nextQ, pr, fetches >>
    /\ UNCHANGED << posts, notifs, nextP, nextN, requestUser, requestSlug,
                    catalogVars, accountVars >>

\* the admin change form of ForumAnswerAdmin with is_accepted changed
SetAccepted ==
    /\ \E a \in DOMAIN answers :
         answers' = [ answers EXCEPT ![a].is_accepted = ~ answers[a].is_accepted ]
    /\ response' = Response("admin_saved", << >>)
    /\ UNCHANGED << questions, nextQ, nextA, pr, fetches >>
    /\ UNCHANGED feedVars

\* (variant: ordering = ['created_at'])
EarlierFirst(a, b) == answers[a].created_at <= answers[b].created_at

\* ordering = ['-is_accepted', 'created_at']: the row a may stand before the
\* row b
AnswerBefore(a, b) ==
    \/ answers[a].is_accepted /\ ~ answers[b].is_accepted
    \/ /\ answers[a].is_accepted = answers[b].is_accepted
       /\ answers[a].created_at <= answers[b].created_at

\* the orders in which the database may return the answers ids
RECURSIVE AnswersOrdered(_)
AnswersOrdered(ids) ==
    IF ids = { } THEN { << >> }
    ELSE UNION { { << a >> \o s : s \in AnswersOrdered(ids \ { a }) } :
                 a \in { a \in ids : \A b \in ids : AnswerBefore(a, b) } }

\* self.object.answers: the answers of the question q
AnswersOf(q) == { a \in DOMAIN answers : answers[a].question = q }

\* what the page shows of the answers s, in order
AnswerEntries(s) ==
    [ k \in 1..Len(s) |->
        [ id |-> s[k], is_accepted |-> answers[s[k]].is_accepted,
          created_at |-> answers[s[k]].created_at ] ]

\* ForumQuestionDetailView.get_context_data: context['answers'] of the question
\* q as the page lists it
AnswersRequest(q) ==
    /\ \E s \in AnswersOrdered(AnswersOf(q)) :
         response' = Response("answers", AnswerEntries(s))
    /\ UNCHANGED << questions, answers, nextQ, nextA, pr, fetches >>
    /\ UNCHANGED feedVars

\* the answers of a stored question are listed
ListAnswers == \E q \in DOMAIN questions : AnswersRequest(q)

(***************************************************************************)
(* The deletion of a category.                                             *)
(***************************************************************************)
\* the rows of table whose column col is not u
RowsWithout(table, col, u) ==
    [ i \in { i \in DOMAIN table : table[i][col] # u } |-> table[i] ]

\* (variant: category = ForeignKey(..., on_delete=CASCADE))
CategoryCascaded(table, c) ==
    [ i \in { i \in DOMAIN table : table[i].category # c } |-> table[i] ]

\* on_delete=models.SET_NULL: UPDATE ... SET category_id = NULL on the rows of
\* table that reference c; no other column is written
CategoryCleared(table, c) ==
    [ i \in DOMAIN table |->
        IF table[i].category = c THEN [ table[i] EXCEPT !.category = NoCategory ]
        ELSE table[i] ]

\* the deletion of the Category c, one transaction: SET_NULL on BlogPost and
\* ForumQuestion, CASCADE on SubCategory
DeleteCategory ==
    /\ \E c \in DOMAIN categories :
         /\ categories' = [ d \in DOMAIN categories \ { c } |-> categories[d] ]
         /\ subcategories' = RowsWithout(subcategories, "category", c)
         /\ cleared' = [ posts |-> { i \in DOMAIN posts : posts[i].category = c },
                         questions |-> { i \in DOMAIN questions :
                                          questions[i].category = c } ]
         /\ posts' = CategoryCleared(posts, c)
         /\ questions' = CategoryCleared(questions, c)
    /\ response' = Response("admin_deleted", << >>)
    /\ UNCHANGED << answers, nextQ, nextA, pr, fetches, notifs, nextP, nextN, now,
                    requestUser, requestSlug, nextC, nextS, accountVars >>

(***************************************************************************)
(* The deletion of a user.                                                 *)
(***************************************************************************)
\* the deletion of the User u, one transaction: the on_delete=CASCADE of
\* BlogPost.author, Notification.user, ForumQuestion.author, ForumAnswer.author
\* and, for the questions deleted, ForumAnswer.question
DeleteUser ==
    /\ \E u \in DOMAIN users :
         LET kept == RowsWithout(questions, "author", u) IN
           /\ users' = [ v \in DOMAIN users \ { u } |-> users[v] ]
           /\ posts' = RowsWithout(posts, "author", u)
           /\ notifs' = RowsWithout(notifs, "user", u)
           /\ questions' = kept
           /\ answers' =
                [ a \in { a \in DOMAIN answers :
                            /\ answers[a].author # u
                            /\ answers[a].question \in DOMAIN kept }
                    |-> answers[a] ]
    /\ response' = Response("admin_deleted", << >>)
    /\ UNCHANGED << nextQ, nextA, pr, fetches, nextP, nextN, now, requestUser,
                    requestSlug, catalogVars, nextU, su, sessionUser >>

\* the requests of SpecCascade come from the users that exist; there is one
\* question
CascadeBounds ==
    [ titles |-> { TitleExamTips }, edits |-> { },
      askers |-> Users \cap DOMAIN users, askMethods |-> { "POST" },
      askContents |-> { AskContentOk },
      callers |-> Users \cap DOMAIN users,
      questions |-> 1, fetches |-> 0, answers |-> MaxCascadeAnswers,
      posts |-> MaxCascadePosts, notifs |-> MaxCascadeNotifs,
      texts |-> { PostText },
      steps |-> { 2 }, authors |-> Users \cap DOMAIN users,
      slugs |-> [ i \in 1..(MaxCascadePosts + 1) |-> { OwnSlug(i) } ] ]

(***************************************************************************)
(* Signup.                                                                 *)
(***************************************************************************)
\* the primary key of the n-th account created by signup
NewUser(n) == << "u1", "u2", "u3", "u4" >>[n]

\* User.objects.filter(username=username).exists(), and the same on email
UsernameExists(username) == \E u \in DOMAIN users : users[u].username = username
EmailExists(email) == \E u \in DOMAIN users : users[u].email = email

\* (variant: clean_username without the length test)
UsernameAnyLength(username) == TRUE

\* clean_username: len(username) < 3 is refused
UsernameLongEnough(username) == Len(username) >= 3

\* the validator of User.username: letters, digits and @ . + - _ only
UsernameWellFormed(username) ==
    /\ username # << >>
    /\ \A i \in DOMAIN username :
         IsWordChar(username[i]) \/ username[i] \in { ".", "@", "+", "-" }

\* validate_password(password): the password policy of the settings
PasswordPolicyOk(password) == password \in { "Tr1cky-Passw0rd" }

\* SignUpView gets a POST with the form's fields
SignupStart(p, b) ==
    /\ su[p].pc = "done"
    /\ nextU <= b.users
    /\ \E username \in b.usernames, email \in b.emails,
          password \in b.passwords, confirm \in b.passwords :
         su' = [ su EXCEPT ![p] =
                   [ pc |-> "clean_username", username |-> Strip(username),
                     email |-> email, password |-> password,
                     confirm |-> confirm, valid |-> TRUE ] ]
    /\ UNCHANGED << users, nextU, sessionUser, response >>
    /\ UNCHANGED << forumVars, posts, notifs, nextP, nextN, now, requestUser,
                    requestSlug, catalogVars >>

\* clean_username: the query, then the length
CleanUsername(p) ==
    /\ su[p].pc = "clean_username"
    /\ su' = [ su EXCEPT ![p].pc = "clean_email",
                         ![p].valid = /\ ~UsernameExists(su[p].username)
                                      /\ UsernameLongEnough(su[p].username) ]
    /\ UNCHANGED << users, nextU, sessionUser, response >>
    /\ UNCHANGED << forumVars, posts, notifs, nextP, nextN, now, requestUser,
                    requestSlug, catalogVars >>

\* clean_email: the query; then clean_password and clean, which read no table
CleanEmail(p) ==
    /\ su[p].pc = "clean_email"
    /\ su' = [ su EXCEPT ![p].pc = "validate_unique",
                         ![p].valid = /\ su[p].valid
                                      /\ ~EmailExists(su[p].email)
                                      /\ PasswordPolicyOk(su[p].password)
                                      /\ su[p].confirm = su[p].password ]
    /\ UNCHANGED << users, nextU, sessionUser, response >>
    /\ UNCHANGED << forumVars, posts, notifs, nextP, nextN, now, requestUser,
                    requestSlug, catalogVars >>

\* the model validation of a ModelForm: the validators of the User fields and
\* the query of validate_unique on username; then form_invalid renders the form
\* with its errors, or form_valid goes on to form.save()
ValidateUnique(p) ==
    /\ su[p].pc = "validate_unique"
    /\ IF /\ su[p].valid
          /\ UsernameWellFormed(su[p].username)
          /\ ~UsernameExists(su[p].username)
       THEN /\ su' = [ su EXCEPT ![p].pc = "insert" ]
            /\ UNCHANGED << sessionUser, response >>
       ELSE /\ su' = [ su EXCEPT ![p] = IdleSignup ]
            /\ sessionUser' = NoUser
            /\ response' = Response("signup_invalid", << >>)
    /\ UNCHANGED << users, nextU >>
    /\ UNCHANGED << forumVars, posts, notifs, nextP, nextN, now, requestUser,
                    requestSlug, catalogVars >>

\* user.save(): the INSERT, refused by the unique index of User.username (the
\* e-mail column has no index); then login(request, user) and the redirect
InsertUser(p) ==
    /\ su[p].pc = "insert"
    /\ IF ~UsernameExists(su[p].username)
       THEN /\ users' = (NewUser(nextU) :>
                           [ username |-> su[p].username, email |-> su[p].email ])
                          @@ users
            /\ nextU' = nextU + 1
            /\ sessionUser' = NewUser(nextU)
            /\ response' = Response("signup_redirect_home", << >>)
       ELSE /\ sessionUser' = NoUser
            /\ response' = Response("signup_integrity_error", << >>)
            /\ UNCHANGED << users, nextU >>
    /\ su' = [ su EXCEPT ![p] = IdleSignup ]
    /\ UNCHANGED << forumVars, posts, notifs, nextP, nextN, now, requestUser,
                    requestSlug, catalogVars >>

(***************************************************************************)
(* Specifications.                                                         *)
(***************************************************************************)
\* no request is under way
Quiet == \A p \in Procs : Ready(p)

\* question creations, admin title edits and deletions, overlapping freely
NextRace ==
    \/ \E p \in Procs :
         \/ AskStart(p, RaceBounds)
         \/ AdminEdit(p, RaceBounds)
         \/ Probe(p)
         \/ InsertQuestion(p)
         \/ UpdateAll(p)
    \/ DeleteQuestion

SpecRace == Init /\ [][NextRace]_vars

\* the same operations, one request after another
NextSlug ==
    \/ \E p \in Procs :
         \/ Quiet /\ AskStart(p, SlugBounds)
         \/ Quiet /\ AdminEdit(p, SlugBounds)
         \/ Probe(p)
         \/ InsertQuestion(p)
         \/ UpdateAll(p)
    \/ Quiet /\ DeleteQuestion

SpecSlug == Init /\ [][NextSlug]_vars

\* the same, where a worker inside the probe loop goes on running
SpecSlugFair == SpecSlug /\ \A p \in Procs : WF_vars(Probe(p))

\* the web operations (ask, detail view, post_answer) on one question,
\* overlapping freely; with one question the probe loop never iterates
NextWeb ==
    \E p \in Procs :
      \/ AskStart(p, WebBounds)
      \/ DetailGet(p, WebBounds)
      \/ PaStart(p, WebBounds)
      \/ InsertQuestion(p)
      \/ UpdateFields(p)
      \/ PaInsert(p)

SpecWeb == Init /\ [][NextWeb]_vars

\* the web operations, one request after another
NextSeqWeb ==
    \E p \in Procs :
      \/ Quiet /\ AskStart(p, SeqWebBounds)
      \/ Quiet /\ DetailGet(p, SeqWebBounds)
      \/ Quiet /\ PaStart(p, SeqWebBounds)
      \/ Probe(p)
      \/ InsertQuestion(p)
      \/ UpdateFields(p)
      \/ PaInsert(p)

SpecSeqWeb == Init /\ [][NextSeqWeb]_vars

\* the ask form, requests overlapping freely
NextAsk ==
    \E p \in Procs :
      \/ AskStart(p, AskBounds)
      \/ Probe(p)
      \/ InsertQuestion(p)

SpecAsk == Init /\ [][NextAsk]_vars

\* no signup is under way
NoSignup == \A p \in Procs : su[p].pc = "done"

\* signups, one request after another
NextSignup ==
    \E p \in Procs :
      \/ NoSignup /\ SignupStart(p, SignupBounds)
      \/ CleanUsername(p)
      \/ CleanEmail(p)
      \/ ValidateUnique(p)
      \/ InsertUser(p)

SpecSignup == Init /\ [][NextSignup]_vars

\* signups overlapping freely
NextSignupRace ==
    \E p \in Procs :
      \/ SignupStart(p, SignupRaceBounds)
      \/ CleanUsername(p)
      \/ CleanEmail(p)
      \/ ValidateUnique(p)
      \/ InsertUser(p)

SpecSignupRace == Init /\ [][NextSignupRace]_vars

\* rows of every owned kind added, one web request after another, while users
\* and questions are deleted at any moment
NextCascade ==
    \/ \E p \in Procs :
         \/ Quiet /\ AskStart(p, CascadeBounds)
         \/ InsertQuestion(p)
         \/ \E caller \in CascadeBounds.callers, s \in AddressedSlugs :
              Quiet /\ PaRequest(p, CascadeBounds, caller, s, "POST", ContentOk)
         \/ PaInsert(p)
         \/ UpdateFields(p)
    \/ CreatePost(CascadeBounds)
    \/ CreateNotification(CascadeBounds)
    \/ DeleteQuestion
    \/ DeleteUser

SpecCascade == Init /\ [][NextCascade]_vars

\* categories, posts and a question added, the question read and answered, and
\* categories deleted at any moment
NextCategory ==
    \/ \E p \in Procs :
         \/ Quiet /\ AskStart(p, CategoryBounds)
         \/ InsertQuestion(p)
         \/ Quiet /\ DetailGet(p, CategoryBounds)
         \/ \E caller \in CategoryBounds.callers, s \in AddressedSlugs :
              Quiet /\ PaRequest(p, CategoryBounds, caller, s, "POST", ContentOk)
         \/ PaInsert(p)
         \/ UpdateFields(p)
    \/ CreateCategory(CategoryBounds)
    \/ CreatePost(CategoryBounds)
    \/ DeleteCategory

SpecCategory == Init /\ [][NextCategory]_vars

\* the catalogue: categories, subcategories and posts added with names and
\* slugs that may be in use, and categories deleted
NextCatalog ==
    \/ CreateCategory(CatalogBounds)
    \/ CreateSubCategory(CatalogBounds)
    \/ CreatePost(CatalogBounds)
    \/ DeleteCategory

SpecCatalog == Init /\ [][NextCatalog]_vars

\* posts and questions added, posts published and unpublished, and searches
NextSearch ==
    \/ \E p \in Procs :
         \/ Quiet /\ AskStart(p, SearchBounds)
         \/ InsertQuestion(p)
    \/ CreatePost(SearchBounds)
    \/ SetPublished
    \/ Search(SearchBounds)

SpecSearch == Init /\ [][NextSearch]_vars

\* a question, answers posted on the site and added on the admin site, answers
\* accepted and unaccepted, and the list of the answers read
NextAnswers ==
    \/ \E p \in Procs :
         \/ Quiet /\ AskStart(p, AnswersBounds)
         \/ InsertQuestion(p)
         \/ \E caller \in AnswersBounds.callers, s \in AddressedSlugs :
              Quiet /\ PaRequest(p, AnswersBounds, caller, s, "POST", ContentOk)
         \/ PaInsert(p)
         \/ UpdateFields(p)
    \/ CreateAnswer(AnswersBounds)
    \/ SetAccepted
    \/ ListAnswers

SpecAnswers == Init /\ [][NextAnswers]_vars

\* rows of every kind added and changed on the admin site and by the ask form,
\* and every read endpoint called
NextReads ==
    \/ \E p \in Procs :
         \/ Quiet /\ AskStart(p, ReadBounds)
         \/ InsertQuestion(p)
    \/ CreateCategory(ReadBounds)
    \/ CreateSubCategory(ReadBounds)
    \/ CreatePost(ReadBounds)
    \/ CreateNotification(ReadBounds)
    \/ EditNotification
    \/ BlogFeedApi
    \/ NotificationsApi(ReadBounds)
    \/ Search(ReadBounds)
    \/ ForumList
    \/ CategoryPage
    \/ SubCategoryPage

SpecReads == Init /\ [][NextReads]_vars

\* the blog: posts added, published and unpublished, and the feed read
NextBlog ==
    \/ CreatePost(BlogBounds)
    \/ SetPublished
    \/ BlogFeedApi

SpecBlog == Init /\ [][NextBlog]_vars

\* the notifications: added, edited, and read through the API
NextNotif ==
    \/ CreateNotification(NotifBounds)
    \/ EditNotification
    \/ NotificationsApi(NotifBounds)

SpecNotif == Init /\ [][NextNotif]_vars

\* the blog detail view: a category and posts added, posts published and
\* unpublished, and the detail page of a post read
NextRelated ==
    \/ CreateCategory(RelatedBounds)
    \/ CreatePost(RelatedBounds)
    \/ SetPublished
    \/ BlogDetail

SpecRelated == Init /\ [][NextRelated]_vars

(***************************************************************************)
(* Properties of the forum.                                                *)
(***************************************************************************)
\* C1: in every reachable state no two ForumQuestion rows have the same slug,
\* under any interleaving of creations, whole-instance saves and deletions.
C1_UniqueSlugs ==
    \A q1, q2 \in DOMAIN questions :
      q1 # q2 => questions[q1].slug # questions[q2].slug

\* two questions of the same title are stored, and a creation lost the race for
\* a slug at the unique index
C1_Witness ==
    /\ \E q1, q2 \in DOMAIN questions :
         q1 # q2 /\ questions[q1].title = questions[q2].title
    /\ response.out = "ask_integrity_error"

\* the slug the specification assigns to base slug B against the slugs D: B
\* when free, else B-k for the least k >= 1 with B-k free
ExpectedSlug(B, D) ==
    IF B \notin D THEN B
    ELSE LET Form(k) == B \o << "-" >> \o DecimalStr(k)
             k == CHOOSE n \in 1 .. (Cardinality(D) + 1) :
                    /\ Form(n) \notin D
                    /\ \A j \in 1 .. (n - 1) : Form(j) \in D
         IN  Form(k)

\* C2: a question first saved with a title of base slug B against the slugs D
\* of the existing questions is stored with slug B when B is not in D, and else
\* with B-k for the smallest k >= 1 such that B-k is not in D; the slug is a
\* function of the title and D.
C2_AssignedSlug ==
    [][ \A q \in DOMAIN questions' \ DOMAIN questions :
          questions'[q].slug =
            ExpectedSlug(slugify(questions'[q].title), StoreSlugs) ]_vars

\* D = {B, B-2} gave B-1: the question inserted last holds exam-tips-1
C2_Witness ==
    \E q1, q2, q3 \in DOMAIN questions :
      /\ q3 > q1 /\ q3 > q2
      /\ questions[q1].slug = slugify(TitleExamTips)
      /\ questions[q2].slug = slugify(TitleExamTips2)
      /\ questions[q3].title = TitleExamTipsSpaced
      /\ questions[q3].slug = << "e","x","a","m","-","t","i","p","s","-","1" >>

\* C3: the slug of a question is computed once, at its first save: no later
\* save changes the stored slug, and the slug of an instance in memory is the
\* stored one.
C3_SlugComputedOnce ==
    [][ /\ \A q \in DOMAIN questions \cap DOMAIN questions' :
             questions'[q].slug = questions[q].slug
        /\ \A p \in Procs :
             pr'[p].obj.id \in DOMAIN questions' =>
               pr'[p].obj.slug = questions'[pr'[p].obj.id].slug ]_vars

\* exactly one row is added to ForumAnswer: for question q, by author u
OneAnswerAdded(q, u) ==
    \E a \in DOMAIN answers' \ DOMAIN answers :
      /\ DOMAIN answers' = DOMAIN answers \cup { a }
      /\ answers'[a].question = q
      /\ answers'[a].author = u
      /\ \A o \in DOMAIN answers : answers'[o] = answers[o]

\* C4: post_answer by an authenticated caller with valid content leaves the
\* question named by the slug with is_answered true, whether it was false or
\* true before, and attaches exactly one new answer to that question, with the
\* caller as author.
C4_PostAnswer ==
    [][ \A p \in Procs :
          /\ (pr[p].pc = "done" /\ pr'[p].op = "answer") => answers' = answers
          /\ (pr[p].pc = "pa_insert" /\ pr'[p].pc # "pa_insert") =>
               /\ questions[pr[p].obj.id].slug = pr[p].obj.slug
               /\ OneAnswerAdded(pr[p].obj.id, pr[p].caller)
          /\ (pr[p].op = "answer" /\ pr[p].pc = "write" /\ pr'[p].pc = "done") =>
               answers' = answers
          /\ (pr[p].op = "answer" /\ pr[p].pc # "done" /\ pr'[p].pc = "done") =>
               /\ response'.out = "answer_posted"
               /\ questions'[pr[p].obj.id].is_answered ]_vars

\* a second answer, by another user, was posted on an answered question
C4_Witness ==
    /\ response.out = "answer_posted"
    /\ \E a1, a2 \in DOMAIN answers :
         /\ a1 # a2
         /\ answers[a1].question = answers[a2].question
         /\ answers[a1].author # answers[a2].author
         /\ questions[answers[a1].question].is_answered

\* C5: once is_answered is true it stays true under the web operations, also
\* when a detail view that read the question before the answer saves after it.
C5_AnsweredStaysTrue ==
    [][ \A q \in DOMAIN questions :
          questions[q].is_answered => questions'[q].is_answered ]_vars

\* a detail view holds a copy read before the answer and is about to save it
C5_Witness ==
    \E p \in Procs :
      /\ pr[p].op = "detail" /\ pr[p].pc = "write"
      /\ ~pr[p].obj.is_answered
      /\ questions[pr[p].obj.id].is_answered

\* C6: N detail fetches of a question, one after another, add exactly N to its
\* views; the other questions keep theirs, and a fetch of an unknown slug is
\* answered not-found and changes no counter.
C6_ViewsCountFetches ==
    /\ [](Quiet => \A q \in DOMAIN questions : questions[q].views = Fetched(q))
    /\ [][ (response' # response /\ response'.out = "detail_not_found")
             => questions' = questions ]_vars

\* one question was fetched twice and another never
C6_Witness ==
    /\ Quiet
    /\ \E q1, q2 \in DOMAIN questions :
         /\ questions[q1].views = 2 /\ Fetched(q1) = 2
         /\ questions[q2].views = 0 /\ Fetched(q2) = 0

\* C7: the views counter never decreases: no step lowers the stored views of a
\* question, overlapping detail views included.
C7_ViewsNeverDecrease ==
    [][ \A q \in DOMAIN questions \cap DOMAIN questions' :
          questions'[q].views >= questions[q].views ]_vars

(***************************************************************************)
(* Properties of the blog feed and of the notifications.                   *)
(***************************************************************************)
\* C8: the blog feed API never returns a post whose is_published is false:
\* every entry of a blog feed response is a stored post that is published.
C8_FeedPublishedOnly ==
    response.out = "blog_feed" =>
      \A k \in 1..Len(response.rows) :
        /\ response.rows[k].id \in DOMAIN posts
        /\ posts[response.rows[k].id].is_published

\* a feed answered while an unpublished post is newer than every entry
C8_Witness ==
    /\ response.out = "blog_feed"
    /\ Len(response.rows) >= 2
    /\ \E i \in DOMAIN posts :
         /\ ~ posts[i].is_published
         /\ \A k \in 1..Len(response.rows) :
              posts[i].created_at > response.rows[k].created_at

\* C9: the blog feed API returns exactly min(5, P) entries, P the number of
\* published posts; they are distinct published posts, listed newest created
\* first, and no published post left out is newer than one returned.
C9_FeedNewestFive ==
    response.out = "blog_feed" =>
      LET rows == response.rows
          P == Cardinality({ i \in DOMAIN posts : posts[i].is_published })
          ids == { rows[k].id : k \in 1..Len(rows) }
      IN  /\ Len(rows) = IF P < 5 THEN P ELSE 5
          /\ \A k \in 1..Len(rows) :
               /\ rows[k].id \in DOMAIN posts
               /\ posts[rows[k].id].is_published
               /\ rows[k].created_at = posts[rows[k].id].created_at
          /\ \A j, k \in 1..Len(rows) : j # k => rows[j].id # rows[k].id
          /\ \A j, k \in 1..Len(rows) :
               j < k => rows[j].created_at >= rows[k].created_at
          /\ \A i \in DOMAIN posts :
               (posts[i].is_published /\ i \notin ids) =>
                 \A k \in 1..Len(rows) :
                   posts[i].created_at <= rows[k].created_at

\* six published posts, five returned, the first newer than the last
C9_Witness ==
    /\ response.out = "blog_feed"
    /\ Cardinality({ i \in DOMAIN posts : posts[i].is_published }) = 6
    /\ Len(response.rows) = 5
    /\ response.rows[1].created_at > response.rows[5].created_at

\* C10: for an authenticated caller U every entry of the notifications API is
\* a notification of U that is unread; at most 5 entries, newest first; and the
\* list is one the API returns on the store without the notifications of the
\* other users, the API returning the same lists on both stores.
C10_OwnUnreadOnly ==
    response.out = "notifications" =>
      LET U == requestUser
          rows == response.rows
          own == [ i \in { i \in DOMAIN notifs : notifs[i].user = U }
                     |-> notifs[i] ]
      IN  /\ U \in Users
          /\ \A k \in 1..Len(rows) :
               /\ rows[k].id \in DOMAIN notifs
               /\ notifs[rows[k].id].user = U
               /\ ~ notifs[rows[k].id].is_read
               /\ ~ rows[k].is_read
          /\ Len(rows) <= 5
          /\ \A j, k \in 1..Len(rows) :
               j < k => rows[j].created_at >= rows[k].created_at
          /\ rows \in NotificationsOn(own, U)
          /\ NotificationsOn(notifs, U) = NotificationsOn(own, U)

\* alice is answered while bob has a newer unread notification and alice has a
\* newer one that is read
C10_Witness ==
    /\ response.out = "notifications"
    /\ requestUser = "alice"
    /\ Len(response.rows) >= 2
    /\ \E i, j \in DOMAIN notifs :
         /\ notifs[i].user = "bob" /\ ~ notifs[i].is_read
         /\ notifs[j].user = "alice" /\ notifs[j].is_read
         /\ notifs[i].created_at > response.rows[1].created_at
         /\ notifs[j].created_at > response.rows[1].created_at

\* C11: notifications_api called by an unauthenticated caller answers with
\* status 401, an empty notifications list and an error field, whatever the
\* Notification table holds.
C11_Unauthenticated401 ==
    (response.out \in { "notifications", "notifications_unauthorized" }
       /\ requestUser = Anonymous) =>
      /\ Status(response.out) = 401
      /\ response.rows = << >>
      /\ HasErrorField(response.out)

\* the unauthenticated caller is answered while both users have unread
\* notifications
C11_Witness ==
    /\ response.out = "notifications_unauthorized"
    /\ requestUser = Anonymous
    /\ \A u \in Users : UnreadOf(notifs, u) # { }

\* the post a blog detail response shows
ShownPost == CHOOSE i \in DOMAIN posts : posts[i].slug = requestSlug

\* C12: for a published post whose category is empty the related posts of the
\* blog detail view are empty, also when other published posts without a
\* category exist.
C12_NoCategoryNoRelated ==
    (response.out = "blog_detail" /\ posts[ShownPost].category = NoCategory) =>
      response.rows = << >>

\* C20: for a published post P with a category C the related posts are at most
\* 4, each of them a published post of category C, and none is P.
C20_RelatedSameCategory ==
    (response.out = "blog_detail" /\ posts[ShownPost].category # NoCategory) =>
      /\ Len(response.rows) <= 4
      /\ \A k \in 1..Len(response.rows) :
           LET j == response.rows[k].id IN
             /\ j \in DOMAIN posts
             /\ posts[j].is_published
             /\ posts[j].category = posts[ShownPost].category
             /\ j # ShownPost

\* the detail page of a post of a category that has five other published posts:
\* four of them are shown
C20_Witness ==
    /\ response.out = "blog_detail"
    /\ posts[ShownPost].category # NoCategory
    /\ Len(response.rows) = 4
    /\ Cardinality(RelatedTo(ShownPost)) = 5

\* C13: post_answer creates a ForumAnswer only for an authenticated caller, a
\* POST, a slug that names a question and a content of 10 characters or more.
\* Every other request ends at once with the answers and the questions as they
\* were: the unauthenticated caller is redirected to login with an error
\* message, the authenticated caller of a question with a bad content or
\* another method is redirected to the detail page of the question.  Answers
\* are added only by a request that passed these tests.
C13_AnswerOnlyWhenValid ==
    [][ /\ \A p \in Procs, caller \in WebBounds.callers, s \in AddressedSlugs,
             method \in Methods, content \in Contents :
             PaRequest(p, WebBounds, caller, s, method, content) =>
               LET found == QuestionBySlug(s) # 0
                   ok == /\ caller \in Users
                         /\ method = "POST"
                         /\ found
                         /\ Len(content) >= 10
               IN  /\ answers' = answers
                   /\ questions' = questions
                   /\ (pr'[p].pc = "pa_insert") <=> ok
                   /\ ~ok => pr'[p] = IdleProc
                   /\ caller = Anonymous =>
                        /\ Status(response'.out) = 302
                        /\ Location(response'.out) = "login"
                        /\ Message(response'.out) = "error"
                   /\ (caller \in Users /\ found /\ ~ok) =>
                        /\ Status(response'.out) = 302
                        /\ Location(response'.out) = "forum_question"
        /\ DOMAIN answers' # DOMAIN answers =>
             \E p \in Procs : pr[p].pc = "pa_insert" /\ pr'[p] # pr[p]
      ]_vars

\* a short content is answered with the redirect and the error message, and the
\* question has no answer and is not flagged
C13_Witness ==
    /\ response.out = "answer_invalid"
    /\ DOMAIN questions # { }
    /\ answers = << >>
    /\ \A q \in DOMAIN questions : ~ questions[q].is_answered

\* C14: the ask form creates a ForumQuestion only for an authenticated caller,
\* a title of 10 characters or more and a content of 20 characters or more.
\* Every other request leaves the ForumQuestion rows as they are and ends at
\* once: the unauthenticated caller is redirected to login, the failed
\* validation is reported on the form.  Rows are added only by a request that
\* passed these tests, with the caller as author.
C14_AskOnlyWhenValid ==
    [][ /\ \A p \in Procs, caller \in AskBounds.askers,
             method \in AskBounds.askMethods, title \in AskBounds.titles,
             content \in AskBounds.askContents :
             AskRequest(p, AskBounds, caller, method, title, content) =>
               LET valid == Len(title) >= 10 /\ Len(content) >= 20
                   ok == caller \in Users /\ method = "POST" /\ valid
               IN  /\ questions' = questions
                   /\ pr'[p] # IdleProc => ok
                   /\ caller = Anonymous =>
                        /\ Status(response'.out) = 302
                        /\ Location(response'.out) = "login"
                   /\ (caller \in Users /\ method = "POST" /\ ~valid) =>
                        HasFormErrors(response'.out)
        /\ \A q \in DOMAIN questions' \ DOMAIN questions :
             \E p \in Procs :
               /\ pr[p].op = "ask" /\ pr[p].pc = "write" /\ pr'[p] = IdleProc
               /\ questions'[q].author = pr[p].caller
               /\ pr[p].caller \in Users
               /\ Len(questions'[q].title) >= 10
      ]_vars

\* a question exists, and the last request, with a title of nine characters,
\* was answered with the form and its errors
C14_Witness ==
    /\ response.out = "ask_invalid"
    /\ Cardinality(DOMAIN questions) = 1
    /\ nextQ = 2

(***************************************************************************)
(* Properties of signup.                                                   *)
(***************************************************************************)
\* the step of worker p answers its signup request
SignupAnswered(p) == su[p].pc # "done" /\ su'[p].pc = "done"

\* the step creates the account of the request of p and logs its client in
SignupCreated(p) ==
    /\ DOMAIN users' = DOMAIN users \cup { NewUser(nextU) }
    /\ NewUser(nextU) \notin DOMAIN users
    /\ users'[NewUser(nextU)] =
         [ username |-> su[p].username, email |-> su[p].email ]
    /\ \A u \in DOMAIN users : users'[u] = users[u]
    /\ sessionUser' = NewUser(nextU)

\* the step creates no account and leaves the client logged out
SignupRefused == users' = users /\ sessionUser' = NoUser

\* the four conditions on the fields of the request of p
SignupConditions(p) ==
    /\ Len(su[p].username) >= 3
    /\ \A u \in DOMAIN users : users[u].username # su[p].username
    /\ \A u \in DOMAIN users : users[u].email # su[p].email
    /\ PasswordPolicyOk(su[p].password)
    /\ su[p].confirm = su[p].password

C16_UniqueAccounts ==
    \A u1, u2 \in DOMAIN users :
      u1 # u2 =>
        /\ users[u1].username # users[u2].username
        /\ users[u1].email # users[u2].email

(***************************************************************************)
(* Properties of the deletions.                                            *)
(***************************************************************************)
\* every ForumAnswer references a stored question, and every owned row a
\* stored user
References ==
    /\ \A a \in DOMAIN answers :
         answers[a].question \in DOMAIN questions /\ answers[a].author \in DOMAIN users
    /\ \A q \in DOMAIN questions : questions[q].author \in DOMAIN users
    /\ \A i \in DOMAIN posts : posts[i].author \in DOMAIN users
    /\ \A n \in DOMAIN notifs : notifs[n].user \in DOMAIN users

\* C17: in every reachable state every ForumAnswer references an existing
\* ForumQuestion and every owned row an existing User; a step that deletes a
\* User leaves no BlogPost, Notification, ForumQuestion or ForumAnswer of that
\* user, and a step that deletes a ForumQuestion (directly or with its author)
\* leaves none of its answers, whoever wrote them.
C17_Cascade ==
    /\ []References
    /\ [][ /\ \A u \in DOMAIN users \ DOMAIN users' :
               /\ \A i \in DOMAIN posts' : posts'[i].author # u
               /\ \A n \in DOMAIN notifs' : notifs'[n].user # u
               /\ \A q \in DOMAIN questions' : questions'[q].author # u
               /\ \A a \in DOMAIN answers' : answers'[a].author # u
          /\ \A q \in DOMAIN questions \ DOMAIN questions' :
               \A a \in DOMAIN answers' : answers'[a].question # q
        ]_vars

\* alice has been deleted after her question was answered: the question and
\* its answers are gone, bob, who answered, is still there
C17_Witness ==
    /\ response.out = "admin_deleted"
    /\ DOMAIN users = { "bob" }
    /\ nextQ = 2 /\ nextA = 3 /\ nextP = 2 /\ nextN = 2
    /\ questions = << >>
    /\ answers = << >>

\* C18: the deletion of a category deletes no blog post and no forum question:
\* each row that referenced it is still there with an empty category and its
\* other fields as they were, and every other row is as it was
C18_CategoryDeletionKeepsRows ==
    [][\A c \in DOMAIN categories :
         c \notin DOMAIN categories' =>
           /\ DOMAIN posts' = DOMAIN posts
           /\ DOMAIN questions' = DOMAIN questions
           /\ \A i \in DOMAIN posts :
                /\ posts'[i].category =
                     IF posts[i].category = c THEN NoCategory
                     ELSE posts[i].category
                /\ \A f \in { "slug", "is_published", "author", "created_at" } :
                     posts'[i][f] = posts[i][f]
           /\ \A i \in DOMAIN questions :
                /\ questions'[i].category =
                     IF questions[i].category = c THEN NoCategory
                     ELSE questions[i].category
                /\ \A f \in { "title", "slug", "author", "is_answered", "views" } :
                     questions'[i][f] = questions[i][f]]_vars

\* a category has just been deleted: a published post referenced it and is
\* still there, and a viewed, answered question references another category
C18_Witness ==
    /\ response.out = "admin_deleted"
    /\ \E i \in cleared.posts :
         /\ i \in DOMAIN posts
         /\ posts[i].category = NoCategory
         /\ posts[i].is_published
    /\ \E j \in DOMAIN questions \ cleared.questions :
         /\ questions[j].category # NoCategory
         /\ questions[j].is_answered
         /\ questions[j].views > 0

\* the unique columns hold distinct values
CatalogUnique ==
    /\ \A c, d \in DOMAIN categories :
         c # d => /\ categories[c].name # categories[d].name
                  /\ categories[c].slug # categories[d].slug
    /\ \A i, j \in DOMAIN posts : i # j => posts[i].slug # posts[j].slug
    /\ \A s, t \in DOMAIN subcategories :
         s # t => \/ subcategories[s].category # subcategories[t].category
                  \/ subcategories[s].slug # subcategories[t].slug

\* the write is refused and the three tables are as they were
WriteRefused ==
    /\ response'.out = "admin_integrity_error"
    /\ UNCHANGED << categories, subcategories, posts >>

\* C19: the creation of a Category whose name or slug is in use, of a BlogPost
\* whose slug is in use, or of a SubCategory whose (category, slug) pair is in
\* use is refused and leaves the store as it was; a SubCategory whose slug is in
\* use only under other categories is stored with that slug
C19_DuplicateWriteRefused ==
    /\ []CatalogUnique
    /\ [][/\ \A name \in CatalogBounds.catNames, slug \in CatalogBounds.catSlugs :
              /\ InsertCategory(name, slug)
              /\ \E c \in DOMAIN categories :
                   categories[c].name = name \/ categories[c].slug = slug
              => WriteRefused
          /\ \A pub \in BOOLEAN, d \in CatalogBounds.steps,
                author \in CatalogBounds.authors,
                slug \in UNION { CatalogBounds.slugs[i] :
                                   i \in DOMAIN CatalogBounds.slugs },
                cat \in { NoCategory } \cup DOMAIN categories,
                text \in CatalogBounds.texts :
              /\ InsertPost(pub, d, slug, author, cat, text)
              /\ \E i \in DOMAIN posts : posts[i].slug = slug
              => WriteRefused
          /\ \A cat \in DOMAIN categories, name \in CatalogBounds.subNames,
                slug \in CatalogBounds.subSlugs :
              InsertSubCategory(cat, name, slug) =>
                IF \E s \in DOMAIN subcategories :
                     /\ subcategories[s].category = cat
                     /\ subcategories[s].slug = slug
                THEN WriteRefused
                ELSE /\ DOMAIN subcategories' = DOMAIN subcategories \cup { nextS }
                     /\ subcategories'[nextS].category = cat
                     /\ subcategories'[nextS].slug = slug
                     /\ \A s \in DOMAIN subcategories :
                          subcategories'[s] = subcategories[s]]_vars

\* a write has just been refused while two categories, two posts and two
\* subcategories of different categories with the same slug are stored
C19_Witness ==
    /\ response.out = "admin_integrity_error"
    /\ Cardinality(DOMAIN categories) = 2
    /\ Cardinality(DOMAIN posts) = 2
    /\ \E s, t \in DOMAIN subcategories :
         /\ subcategories[s].category # subcategories[t].category
         /\ subcategories[s].slug = subcategories[t].slug

\* q occurs in text at some offset, letters compared without their case
Occurs(q, text) ==
    LET lq == [ j \in DOMAIN q |-> ToLower(q[j]) ]
        lt == [ j \in DOMAIN text |-> ToLower(text[j]) ]
    IN  \E k \in 0..(Len(text) - Len(q)) : \A j \in 1..Len(q) : lt[k + j] = lq[j]

\* C21: a search whose query is empty or blank returns no blog post and no
\* question; any other search returns exactly the published posts and exactly
\* the questions whose title or content contains the query (its surrounding
\* blanks removed), whatever the case of the letters
C21_SearchResults ==
    [][\A q \in SearchBounds.queries :
         response'.out = "search" /\ SearchRequest(q) =>
           IF \A k \in DOMAIN q : q[k] = " "
           THEN response'.rows = << { }, { } >>
           ELSE /\ response'.rows[1] =
                     { i \in DOMAIN posts :
                         /\ posts[i].is_published
                         /\ \/ Occurs(Strip(q), posts[i].title)
                            \/ Occurs(Strip(q), posts[i].content) }
                /\ response'.rows[2] =
                     { i \in DOMAIN questions :
                         \/ Occurs(Strip(q), questions[i].title)
                         \/ Occurs(Strip(q), questions[i].content) }]_vars

\* a search has just returned a published post and a question while an
\* unpublished post with the same text as the returned one is stored
C21_Witness ==
    /\ response.out = "search"
    /\ response.rows[2] # { }
    /\ \E i \in response.rows[1], j \in DOMAIN posts :
         /\ ~ posts[j].is_published
         /\ posts[j].title = posts[i].title
         /\ posts[j].content = posts[i].content

\* C22: the list of the answers of a question holds each of its answers once,
\* every accepted answer before every answer that is not accepted, and two
\* answers of the same group in the order of their creation times
C22_AcceptedFirst ==
    [][\A q \in DOMAIN questions :
         response'.out = "answers" /\ AnswersRequest(q) =>
           LET rows == response'.rows IN
             /\ { rows[k].id : k \in DOMAIN rows } =
                  { a \in DOMAIN answers : answers[a].question = q }
             /\ \A k, l \in DOMAIN rows :
                  k < l =>
                    /\ rows[k].id # rows[l].id
                    /\ rows[l].is_accepted => rows[k].is_accepted
                    /\ rows[k].is_accepted = rows[l].is_accepted =>
                         rows[k].created_at <= rows[l].created_at]_vars

\* the list shows an accepted answer before an answer that was created
\* earlier and is not accepted, and then a later answer that is not accepted
C22_Witness ==
    /\ response.out = "answers"
    /\ Len(response.rows) = 3
    /\ response.rows[1].is_accepted
    /\ ~ response.rows[2].is_accepted
    /\ response.rows[2].created_at < response.rows[1].created_at
    /\ response.rows[2].created_at < response.rows[3].created_at

\* C23: the step that stores the question of an ask request stores one row
\* with the caller as author, no views, not answered and a slug that is not
\* empty and fits the route of the detail view; the request is redirected to
\* that route, and the slug addresses the new row and no other
C23_NewQuestionAddressable ==
    [][\A p \in Procs :
         /\ pr[p].op = "ask" /\ pr[p].pc = "write" /\ pr'[p].pc = "done"
         /\ questions' # questions
         =>
           \E q \in DOMAIN questions' \ DOMAIN questions :
             /\ DOMAIN questions' = DOMAIN questions \cup { q }
             /\ questions'[q].author = pr[p].caller
             /\ questions'[q].views = 0
             /\ ~ questions'[q].is_answered
             /\ questions'[q].slug # << >>
             /\ MatchesSlugConverter(questions'[q].slug)
             /\ response'.out = "ask_redirect_detail"
             /\ { i \in DOMAIN questions' :
                    questions'[i].slug = questions'[q].slug } = { q }]_vars

\* C24: the write of a detail request stores the views of its copy, the value
\* it read plus one, whatever was stored in between, and the stored views never
\* exceed the number of the detail requests that read the question; so that
\* two overlapping requests can leave the counter one higher, not two
C24_ViewsWrittenFromCopy ==
    /\ [](\A q \in DOMAIN questions : questions[q].views <= Fetched(q))
    /\ [][\A p \in Procs :
            /\ pr[p].op = "detail" /\ pr[p].pc = "write" /\ pr'[p].pc = "done"
            /\ pr[p].obj.id \in DOMAIN questions
            => questions'[pr[p].obj.id].views = pr[p].obj.views]_vars

\* two detail requests of a question were answered, no request is under way,
\* and the views of the question are one
C24_Witness ==
    /\ Quiet
    /\ response.out = "detail_rendered"
    /\ \E q \in DOMAIN questions : Fetched(q) = 2 /\ questions[q].views = 1

\* C25: the INSERT of an ask request whose slug is free stores the question
\* with that slug; the INSERT of one whose slug was taken since its probe is
\* refused, the request ends there with the write error and without another
\* probe, no row is added, and one row holds the slug
C25_DuplicateNotRetried ==
    [][\A p \in Procs :
         (pr[p].op = "ask" /\ pr[p].pc = "write" /\ pr'[p] # pr[p]) =>
           LET slug == pr[p].obj.slug IN
             IF \E q \in DOMAIN questions : questions[q].slug = slug
             THEN /\ questions' = questions
                  /\ pr'[p] = IdleProc
                  /\ response'.out = "ask_integrity_error"
                  /\ Status(response'.out) = 500
                  /\ Cardinality({ q \in DOMAIN questions' :
                                     questions'[q].slug = slug }) = 1
             ELSE /\ DOMAIN questions' = DOMAIN questions \cup { nextQ }
                  /\ questions'[nextQ].slug = slug]_vars

\* two creations with the same title have ended, the second with the write
\* error: one question is stored, with the slug of the title, and no question
\* was ever stored with a suffix
C25_Witness ==
    /\ Quiet
    /\ response.out = "ask_integrity_error"
    /\ nextQ = 2
    /\ DOMAIN questions = { 1 }
    /\ questions[1].title = TitleExamTips
    /\ questions[1].slug = slugify(TitleExamTips)

\* the step leaves every question in place with every column but col as it was
OnlyColumnWritten(col) ==
    /\ DOMAIN questions' = DOMAIN questions
    /\ \A q \in DOMAIN questions :
         \A c \in { "title", "content", "slug", "author", "category",
                     "is_answered", "views" } \ { col } :
           questions'[q][c] = questions[q][c]

\* C26: every step of a detail request leaves the answers and, of every
\* question, all columns but views as they were; every step of a post_answer
\* request leaves, of every question, all columns but is_answered as they
\* were; also when the copy the request writes from was read before a write of
\* another request
C26_OnlyOwnColumn ==
    [][\A p \in Procs :
         /\ (pr'[p] # pr[p] /\ "detail" \in { pr[p].op, pr'[p].op }) =>
              /\ OnlyColumnWritten("views")
              /\ answers' = answers
         /\ (pr'[p] # pr[p] /\ "answer" \in { pr[p].op, pr'[p].op }) =>
              OnlyColumnWritten("is_answered")]_vars

\* a post_answer request has just set is_answered while a detail request
\* holds a copy read before that write, and the views were written before
C26_Witness ==
    /\ response.out = "answer_posted"
    /\ \E p \in Procs :
         /\ pr[p].op = "detail" /\ pr[p].pc = "write"
         /\ pr[p].obj.id \in DOMAIN questions
         /\ ~ pr[p].obj.is_answered
         /\ questions[pr[p].obj.id].is_answered
         /\ questions[pr[p].obj.id].views > 0

\* what the read endpoints answer
ReadOuts ==
    { "blog_feed", "notifications", "notifications_unauthorized", "search",
      "forum_list", "category", "category_not_found", "subcategory",
      "subcategory_not_found" }

\* C27: a step that answers a read endpoint (blog feed API, notifications API,
\* search, forum listing, category and subcategory pages) changes no row of
\* the store; and a notifications call that follows a notifications call of
\* the same user with no write in between returns the same list
C27_ReadsWriteNothing ==
    [][/\ response'.out \in ReadOuts =>
            UNCHANGED << posts, notifs, questions, answers, categories,
                         subcategories, users, nextP, nextN, nextQ, nextA,
                         nextC, nextS >>
       /\ ( /\ response.out = "notifications"
            /\ response'.out = "notifications"
            /\ requestUser' = requestUser )
            => response'.rows = response.rows]_vars

\* the notifications API has just returned an unread notification, which is
\* still unread, while a row of every other kind is stored
C27_Witness ==
    /\ response.out = "notifications"
    /\ Len(response.rows) = 1
    /\ \A k \in DOMAIN response.rows : ~ notifs[response.rows[k].id].is_read
    /\ posts # << >> /\ questions # << >>
    /\ categories # << >> /\ subcategories # << >>

\* C28: with no other writer during the probe, a save that entered the probe
\* loop leaves it, after no more evaluations of the condition than there are
\* stored slugs plus one, with the first of base, base-1, base-2, ... that no
\* stored question has
C28_ProbeTerminates ==
    /\ \A p \in Procs : (pr[p].pc = "probe") ~> (pr[p].pc = "write")
    /\ [](\A p \in Procs :
            pr[p].pc = "probe" => pr[p].counter <= Cardinality(StoreSlugs) + 1)
    /\ [][\A p \in Procs :
            (pr[p].pc = "probe" /\ pr'[p].pc = "write") =>
              /\ pr'[p].obj.slug \notin StoreSlugs
              /\ \/ pr'[p].obj.slug = pr[p].base
                 \/ \E k \in 1..(Cardinality(StoreSlugs) + 1) :
                      /\ pr'[p].obj.slug = Suffixed(pr[p].base, k)
                      /\ pr[p].base \in StoreSlugs
                      /\ \A j \in 1..(k - 1) :
                           Suffixed(pr[p].base, j) \in StoreSlugs]_vars

\* a save has left the probe loop with exam-tips-2, after exam-tips and
\* exam-tips-1 were found stored
C28_Witness ==
    \E p \in Procs :
      /\ pr[p].pc = "write" /\ pr[p].mode = "insert"
      /\ pr[p].counter = 3
      /\ pr[p].obj.slug = << "e","x","a","m","-","t","i","p","s","-","2" >>
      /\ { slugify(TitleExamTips), Suffixed(slugify(TitleExamTips), 1) }
           \subseteq StoreSlugs

=============================================================================
